---------------------------- MODULE Spec2Model ----------------------------
(***************************************************************************)
(* A model of the numerical core of pyQCD: the SU(2) subgroup enumeration, *)
(* the pseudo-heatbath link update and sweep, the conjugate-gradient       *)
(* solver, the hopping-matrix precompute and its application.              *)
(*                                                                         *)
(* Numbers.  The code's Real / std::complex<Real> values are held exactly  *)
(* as complex rationals <<re, im, den>> (value (re + i*im)/den, den > 0,   *)
(* lowest terms).  <<0, 0, 0>> is the non-finite value: the result of a    *)
(* division by zero and of every operation on a non-finite operand (IEEE   *)
(* NaN; infinities are folded into it).  Comparisons with it are false.    *)
(* Unsigned 32-bit values are held as the representative of their residue  *)
(* mod 2^32 in (-2^31, 2^31): a negative representative r stands for the   *)
(* unsigned value 2^32 + r.                                                *)
(***************************************************************************)
EXTENDS Integers, Sequences, FiniteSets, TLC

VARIABLES
  \* compute_su2_subgroup_pos driver
  posNc, posIndex, posOut,
  \* heatbath_update
  gauge_field, action, num_iter, seed, rngState, rngLog,
  hbPc, sweep, link, hbStaple, hbSubgroup, callLog, su2Trace, run, firstField,
  firstLog,
  \* conjugate_gradient
  cgAction, rhs, max_iter, tolSq, relTol, solution, resid, pvec, cgIter,
  cgPc, lastResSq,
  \* HoppingMatrix constructor
  shape, phases, Nhops, hopField, site_index, dirn, hop, site_coords, ctorPc,
  scattered_gauge_field, neighbour_array_indices,
  \* HoppingMatrix::set_spin_structures and HoppingMatrix::apply_full
  \* (appIn and appOut are its parameters fermion_in and fermion_out)
  spin_structures, appIn, appOut, pre_gather_results, arr_index, mu,
  appPc, appGarbage, appPlan, callNo, appResults, appAccess,
  \* gen_heatbath_su2
  genWeight, genSeed, genRng, genLambdaSq, genUniformSq, genDraws, genRounds,
  genPc, genResult

posVars == <<posNc, posIndex, posOut>>
hbVars  == <<gauge_field, action, num_iter, seed, rngState, rngLog,
             hbPc, sweep, link, hbStaple, hbSubgroup, callLog, su2Trace, run,
             firstField, firstLog>>
cgVars  == <<cgAction, rhs, max_iter, tolSq, relTol, solution, resid, pvec,
             cgIter, cgPc, lastResSq>>
hopVars == <<shape, phases, Nhops, hopField, site_index, dirn, hop, site_coords,
             ctorPc, scattered_gauge_field, neighbour_array_indices>>
appVars == <<spin_structures, appIn, appOut, pre_gather_results,
             arr_index, mu, appPc, appGarbage, appPlan, callNo, appResults,
             appAccess>>
genVars == <<genWeight, genSeed, genRng, genLambdaSq, genUniformSq, genDraws,
             genRounds, genPc, genResult>>
vars == <<posVars, hbVars, cgVars, hopVars, appVars, genVars>>

----------------------------------------------------------------------------
(* Exact complex-rational arithmetic standing for Real / std::complex.     *)

Abs(n) == IF n < 0 THEN -n ELSE n

RECURSIVE Gcd(_, _)
Gcd(a, b) == IF b = 0 THEN a ELSE Gcd(b, a % b)

NaN == <<0, 0, 0>>
IsFinite(z) == z[3] # 0

\* lowest terms, positive denominator; a zero denominator is non-finite
Norm(re, im, den) ==
  IF den = 0 THEN NaN
  ELSE LET g == Gcd(Gcd(Abs(re), Abs(im)), Abs(den))
           s == IF den < 0 THEN -1 ELSE 1
       IN  <<(s * re) \div g, (s * im) \div g, (s * den) \div g>>

Cx(re, im) == <<re, im, 1>>
Re(n)      == <<n, 0, 1>>
Zero       == Re(0)
One        == Re(1)
Frac(n, d) == Norm(n, 0, d)

\* the sum over the common denominator x[3] * y[3] / g, g dividing both
CAddOver(x, y, g) ==
  Norm(x[1] * (y[3] \div g) + y[1] * (x[3] \div g),
       x[2] * (y[3] \div g) + y[2] * (x[3] \div g),
       (x[3] \div g) * y[3])
CAdd(x, y) ==
  IF ~IsFinite(x) \/ ~IsFinite(y) THEN NaN
  ELSE CAddOver(x, y, Gcd(x[3], y[3]))

CNeg(x) == IF IsFinite(x) THEN <<-x[1], -x[2], x[3]>> ELSE NaN
CSub(x, y) == CAdd(x, CNeg(y))
CConj(x) == IF IsFinite(x) THEN <<x[1], -x[2], x[3]>> ELSE NaN

CMul(x, y) ==
  IF ~IsFinite(x) \/ ~IsFinite(y) THEN NaN
  ELSE Norm(x[1] * y[1] - x[2] * y[2], x[1] * y[2] + x[2] * y[1], x[3] * y[3])

\* x / y; y = 0 gives the non-finite value
CDiv(x, y) ==
  IF ~IsFinite(x) \/ ~IsFinite(y) THEN NaN
  ELSE LET m == y[1] * y[1] + y[2] * y[2]
       IN  Norm((x[1] * y[1] + x[2] * y[2]) * y[3],
                (x[2] * y[1] - x[1] * y[2]) * y[3],
                x[3] * m)

RealPart(x) == IF IsFinite(x) THEN Norm(x[1], 0, x[3]) ELSE NaN
IsReal(x) == IsFinite(x) /\ x[2] = 0

\* x < y on real values; false when either is non-finite
RLess(x, y) == IsFinite(x) /\ IsFinite(y) /\ x[1] * y[3] < y[1] * x[3]
RLeq(x, y)  == IsFinite(x) /\ IsFinite(y) /\ x[1] * y[3] <= y[1] * x[3]

\* floor of the square root of a natural number
RECURSIVE ISqrtFrom(_, _)
ISqrtFrom(n, k) == IF (k + 1) * (k + 1) > n THEN k ELSE ISqrtFrom(n, k + 1)
ISqrt(n) == ISqrtFrom(n, 0)

\* std::sqrt on a non-negative real: exact on squares of rationals, rounded
\* down to a multiple of 1/den otherwise; non-finite on a negative or
\* non-finite argument
RSqrt(x) ==
  IF ~IsFinite(x) \/ x[1] < 0 THEN NaN
  ELSE Norm(ISqrt(x[1] * x[3]), 0, x[3])

----------------------------------------------------------------------------
(* Unsigned 32-bit arithmetic on representatives.                          *)

Half32 == 65536

\* 2^32 mod m, from 2^16 mod m
Pow32Mod(m) == ((Half32 % m) * (Half32 % m)) % m

\* the unsigned value of representative r, reduced modulo m > 0
UMod(r, m) == IF r >= 0 THEN r % m ELSE (Pow32Mod(m) + (r % m)) % m

\* a >= b as unsigned values
UGeq(a, b) ==
  IF (a >= 0) = (b >= 0) THEN a >= b ELSE a < 0

----------------------------------------------------------------------------
(* utils/matrices.hpp: compute_su2_subgroup_pos                             *)

\* the for loop: returns <<i, tmp>> at loop exit
RECURSIVE SubgroupLoop(_, _, _)
SubgroupLoop(nc, i, tmp) ==
  IF UGeq(tmp, nc - 1 - i)
  THEN SubgroupLoop(nc, i + 1, tmp - (nc - 1 - i))
  ELSE <<i, tmp>>

\* the range assertion of line 82
SubgroupIndexValid(nc, index) == index < nc

compute_su2_subgroup_pos(nc, index) ==
  IF ~SubgroupIndexValid(nc, index)
  THEN [status |-> "range_error", i |-> 0, j |-> 0]
  ELSE LET e == SubgroupLoop(nc, 0, index)
       IN  [status |-> "ok", i |-> e[1], j |-> e[1] + 1 + e[2]]

\* constexpr num_subgroups = (Nc * (Nc - 1)) / 2
NumSubgroups(nc) == (nc * (nc - 1)) \div 2

----------------------------------------------------------------------------
(* Colour matrices: tuples of rows of complex numbers.  The code's entry   *)
(* (i, j), 0-based, is At(A, i, j).                                        *)

\* ColourMatrix<Real, 3>
Nc == 3

At(A, i, j) == A[i + 1][j + 1]
MatDim(A) == Len(A)

\* the n x n matrix with entries E(i, j), 0 <= i, j < n <= 3
MatBuild(n, E(_, _)) ==
  IF n = 2
  THEN << <<E(0, 0), E(0, 1)>>,
          <<E(1, 0), E(1, 1)>> >>
  ELSE << <<E(0, 0), E(0, 1), E(0, 2)>>,
          <<E(1, 0), E(1, 1), E(1, 2)>>,
          <<E(2, 0), E(2, 1), E(2, 2)>> >>

\* E(0) + ... + E(n-1), n <= 3
SumTo(n, E(_)) ==
  IF n = 2 THEN CAdd(E(0), E(1)) ELSE CAdd(CAdd(E(0), E(1)), E(2))

MatIdentity(n) == MatBuild(n, LAMBDA i, j : IF i = j THEN One ELSE Zero)
MatZero(n) == MatBuild(n, LAMBDA i, j : Zero)
MatMul(A, B) ==
  MatBuild(MatDim(A), LAMBDA i, j :
    SumTo(MatDim(A), LAMBDA k : CMul(At(A, i, k), At(B, k, j))))
MatAdd(A, B) ==
  MatBuild(MatDim(A), LAMBDA i, j : CAdd(At(A, i, j), At(B, i, j)))
MatSub(A, B) ==
  MatBuild(MatDim(A), LAMBDA i, j : CSub(At(A, i, j), At(B, i, j)))
MatScale(c, A) == MatBuild(MatDim(A), LAMBDA i, j : CMul(c, At(A, i, j)))
MatDivScalar(A, c) == MatBuild(MatDim(A), LAMBDA i, j : CDiv(At(A, i, j), c))
MatAdjoint(A) == MatBuild(MatDim(A), LAMBDA i, j : CConj(At(A, j, i)))
MatTrace(A) == SumTo(MatDim(A), LAMBDA k : At(A, k, k))
MatFinite(A) ==
  \A i \in 0..(MatDim(A) - 1) : \A j \in 0..(MatDim(A) - 1) :
    IsFinite(At(A, i, j))

\* determinant of a 2x2 and of a 3x3 matrix
Det2(A) == CSub(CMul(At(A, 0, 0), At(A, 1, 1)), CMul(At(A, 0, 1), At(A, 1, 0)))
Det3(A) ==
  LET minor(a, b, c, d) == CSub(CMul(a, d), CMul(b, c))
  IN  CAdd(CSub(CMul(At(A, 0, 0),
                     minor(At(A, 1, 1), At(A, 1, 2), At(A, 2, 1), At(A, 2, 2))),
                CMul(At(A, 0, 1),
                     minor(At(A, 1, 0), At(A, 1, 2), At(A, 2, 0), At(A, 2, 2)))),
           CMul(At(A, 0, 2),
                minor(At(A, 1, 0), At(A, 1, 1), At(A, 2, 0), At(A, 2, 1))))
MatDet(A) == IF MatDim(A) = 2 THEN Det2(A) ELSE Det3(A)

\* membership of SU(n): finite, unitary, unit determinant
IsSU(A) ==
  /\ MatFinite(A)
  /\ MatMul(A, MatAdjoint(A)) = MatIdentity(MatDim(A))
  /\ MatDet(A) = One

----------------------------------------------------------------------------
(* utils/matrices.hpp: Pauli basis, construct / extract / insert           *)

CI == Cx(0, 1)
Mat2(a, b, c, d) == << <<a, b>>, <<c, d>> >>
sigma0 == MatIdentity(2)
sigma1 == Mat2(Zero, One, One, Zero)
sigma2 == Mat2(Zero, CNeg(CI), CI, Zero)
sigma3 == Mat2(One, Zero, Zero, Re(-1))

\* coefficients: a 4-tuple of reals, indexed 1..4 for coefficients[0..3]
construct_su2(coefficients) ==
  MatAdd(MatScale(coefficients[1], sigma0),
         MatScale(CI, MatAdd(MatAdd(MatScale(coefficients[2], sigma1),
                                    MatScale(coefficients[3], sigma2)),
                             MatScale(coefficients[4], sigma3))))

extract_su2(colour_matrix, subgroup) ==
  LET pos == compute_su2_subgroup_pos(Nc, subgroup)
      i == pos.i
      j == pos.j
      ret == Mat2(At(colour_matrix, i, i), At(colour_matrix, i, j),
                  At(colour_matrix, j, i), At(colour_matrix, j, j))
  IN  MatAdd(MatSub(ret, MatAdjoint(ret)),
             MatScale(CConj(MatTrace(ret)), MatIdentity(2)))

insert_su2(su2_matrix, subgroup) ==
  LET pos == compute_su2_subgroup_pos(Nc, subgroup)
      i == pos.i
      j == pos.j
      ident == MatIdentity(Nc)
  IN  MatBuild(Nc, LAMBDA r, c :
        CASE r = i /\ c = i -> At(su2_matrix, 0, 0)
          [] r = i /\ c = j -> At(su2_matrix, 0, 1)
          [] r = j /\ c = i -> At(su2_matrix, 1, 0)
          [] r = j /\ c = j -> At(su2_matrix, 1, 1)
          [] OTHER -> At(ident, r, c))

----------------------------------------------------------------------------
(* The random source (utils/random.hpp): a seeded deterministic stream of  *)
(* uniform reals.  The stream is a full-period congruential generator of   *)
(* period RngPeriod; each output is a point of the grid {0, 3/4}, on which *)
(* the logarithms and circular functions used below are exact.  Angles are *)
(* held in turns (an angle t stands for 2*pi*t radians) and logarithms in  *)
(* units of ln 2.  A stream value is the record [s, log]: the generator    *)
(* state and the calls made so far.                                        *)

RngPeriod == 16
RngMul == 5
RngInc == 3
GridNum == 3
GridDen == 4

RngSeed(n) == [s |-> n % RngPeriod, log |-> <<>>]
RngUniform(s) == IF 2 * s >= RngPeriod THEN Frac(GridNum, GridDen) ELSE Zero
RngAdvance(s) == (RngMul * s + RngInc) % RngPeriod

\* rng().generate_real(lo, hi) for (0, 1) and (-1, 1); kind names the call
generate_real(rng, lo, hi, kind) ==
  [v   |-> CAdd(lo, CMul(CSub(hi, lo), RngUniform(rng.s))),
   rng |-> [s |-> RngAdvance(rng.s), log |-> Append(rng.log, kind)]]

\* rng().generate_real(0, 2 * pi), the result in turns
generate_angle(rng) == generate_real(rng, Zero, One, "angle")
generate_unit(rng)  == generate_real(rng, Zero, One, "unit")
generate_sym(rng)   == generate_real(rng, Re(-1), One, "sym")

\* t reduced to a quarter-turn index 0..3 (t a multiple of 1/4 turn)
QuarterIndex(t) == ((4 * t[1]) \div t[3]) % 4
\* std::cos / std::sin of the angle of t turns
CosTurns(t) ==
  IF ~IsFinite(t) THEN NaN
  ELSE CASE QuarterIndex(t) = 0 -> One
         [] QuarterIndex(t) = 2 -> Re(-1)
         [] OTHER -> Zero
SinTurns(t) ==
  IF ~IsFinite(t) THEN NaN
  ELSE CASE QuarterIndex(t) = 1 -> One
         [] QuarterIndex(t) = 3 -> Re(-1)
         [] OTHER -> Zero
\* std::log of r in (0, 1], in units of ln 2 (r a power of 1/2)
RECURSIVE LogUnits(_)
LogUnits(r) ==
  IF ~IsFinite(r) \/ r[1] <= 0 THEN NaN
  ELSE IF r[3] = 1 THEN Zero
  ELSE CSub(LogUnits(Norm(2 * r[1], 0, r[3])), One)

----------------------------------------------------------------------------
(* algorithms/heatbath.hpp                                                  *)

\* std::sqrt of a complex number with real argument (det R is real)
CSqrt(z) ==
  IF ~IsReal(z) THEN NaN
  ELSE IF z[1] >= 0 THEN RSqrt(z)
  ELSE CMul(CI, RSqrt(CNeg(z)))

\* a < 6.0 * std::numeric_limits<Real>::epsilon().  Every positive value a
\* complex rational with 32-bit parts can hold exceeds 2^-31 > 6 * 2^-52,
\* so the test is true exactly of the finite values a <= 0.
BelowSixEpsilon(a) == IsFinite(a) /\ a[1] <= 0

\* the coefficients from coeffs[0], cos(theta) and phi (lines 64-74 of
\* heatbath.hpp, lines 62-72 of matrices.hpp)
SphereCoeffs(c0, three_vec_magnitude, cos_theta, sin_theta, phi) ==
  <<c0,
    CMul(CMul(three_vec_magnitude, sin_theta), CosTurns(phi)),
    CMul(CMul(three_vec_magnitude, sin_theta), SinTurns(phi)),
    CMul(three_vec_magnitude, cos_theta)>>

\* return construct_su2(coeffs)
SphereResult(coeffs, rng) ==
  [X |-> construct_su2(coeffs), rng |-> rng, coeffs |-> coeffs]

\* d1: the draw of cos(theta) in (-1, 1); d2: the draw of phi
SphereDraws(c0, d1, d2) ==
  SphereResult(SphereCoeffs(c0, RSqrt(CSub(One, CMul(c0, c0))), d1.v,
                            RSqrt(CSub(One, CMul(d1.v, d1.v))), d2.v),
               d2.rng)

SphereAfter(c0, d1) == SphereDraws(c0, d1, generate_angle(d1.rng))

\* the last three coefficients and the SU(2) matrix, from coeffs[0]
SphereTail(c0, rng) == SphereAfter(c0, generate_sym(rng))

RandomSu2Of(d0) == SphereTail(d0.v, d0.rng)

random_su2(rng) == RandomSu2Of(generate_unit(rng))

\* n successive draws rng().generate_real(0.0, 1.0), in order
RECURSIVE UnitDraws(_, _)
UnitDrawsAfter(d, n) == <<d>> \o UnitDraws(d.rng, n - 1)
UnitDraws(rng, n) ==
  IF n = 0 THEN <<>> ELSE UnitDrawsAfter(generate_unit(rng), n)

\* lambda_squared of lines 55-60 from the three values 1 - rand and the weight
LambdaSquared(weight, r0, c, r2) ==
  CMul(CDiv(Re(-1), CMul(Re(2), weight)),
       CAdd(LogUnits(r0), CMul(CMul(c, c), LogUnits(r2))))

\* the loop body on its four draws ds
HeatbathRoundOf(weight, ds) ==
  <<LambdaSquared(weight, CSub(One, ds[1].v),
                  CosTurns(CSub(One, ds[2].v)), CSub(One, ds[3].v)),
    CMul(ds[4].v, ds[4].v),
    ds[4].rng>>

\* one pass of the while loop body (lines 55-61): <<lambda_squared,
\* uniform_squared, rng>>
HeatbathRound(weight, rng) == HeatbathRoundOf(weight, UnitDraws(rng, 4))

\* while (uniform_squared > 1 - lambda_squared) { ... }
RECURSIVE HeatbathLoop(_, _, _, _, _)
HeatbathLoopAfter(weight, nx, rounds) ==
  HeatbathLoop(weight, nx[1], nx[2], nx[3], rounds + 1)
HeatbathLoop(weight, lambda_squared, uniform_squared, rng, rounds) ==
  IF RLess(CSub(One, lambda_squared), uniform_squared)
  THEN HeatbathLoopAfter(weight, HeatbathRound(weight, rng), rounds)
  ELSE [lambda_squared |-> lambda_squared, rng |-> rng, rounds |-> rounds]

\* coefficients[0] = 1 - 2 * lambda_squared, then the sphere point
HeatbathTail(lp) ==
  SphereTail(CSub(One, CMul(Re(2), lp.lambda_squared)), lp.rng)

\* lambda_squared = 2.0, uniform_squared = rand^2 (lines 52-53), the loop
HeatbathStart(weight, d0) ==
  HeatbathTail(HeatbathLoop(weight, Re(2), CMul(d0.v, d0.v), d0.rng, 0))

gen_heatbath_su2(weight, rng) == HeatbathStart(weight, generate_unit(rng))

\* su2_heatbath_update (lines 80-95), one definition per statement; each
\* returns the new link, the stream and a record of the step.
\* line 94: link = N * link
Su2Result(lnk, staple, subgroup, sqrt_detA, det_is_zero, g, inserted, N) ==
  [link |-> MatMul(N, lnk),
   rng  |-> g.rng,
   step |-> [subgroup |-> subgroup, link_in |-> lnk, staple |-> staple,
             divisor |-> sqrt_detA, det_is_zero |-> det_is_zero,
             X |-> g.X, inserted |-> inserted, N |-> N]]

\* line 93: N = insert_su2<Nc>(..., subgroup)
Su2Insert(lnk, staple, subgroup, sqrt_detA, det_is_zero, g, inserted) ==
  Su2Result(lnk, staple, subgroup, sqrt_detA, det_is_zero, g, inserted,
            insert_su2(inserted, subgroup))

\* line 93: (X * A.adjoint()).eval()
Su2Multiply(lnk, staple, subgroup, sqrt_detA, A, det_is_zero, g) ==
  Su2Insert(lnk, staple, subgroup, sqrt_detA, det_is_zero, g,
            MatMul(g.X, MatAdjoint(A)))

\* line 92: X = det_is_zero ? random_su2() : gen_heatbath_su2(a * weight)
Su2Draw(lnk, staple, weight, subgroup, rng, sqrt_detA, A, a, det_is_zero) ==
  Su2Multiply(lnk, staple, subgroup, sqrt_detA, A, det_is_zero,
              IF det_is_zero THEN random_su2(rng)
              ELSE gen_heatbath_su2(CMul(a, weight), rng))

\* lines 90-91: a = sqrt_detA.real(); det_is_zero = a < 6 epsilon
Su2Test(lnk, staple, weight, subgroup, rng, sqrt_detA, A, a) ==
  Su2Draw(lnk, staple, weight, subgroup, rng, sqrt_detA, A, a,
          BelowSixEpsilon(a))

\* line 89: A /= sqrt_detA
Su2Divide(lnk, staple, weight, subgroup, rng, R, sqrt_detA) ==
  Su2Test(lnk, staple, weight, subgroup, rng, sqrt_detA,
          MatDivScalar(R, sqrt_detA), RealPart(sqrt_detA))

\* line 88: sqrt_detA = std::sqrt(A.determinant())
Su2Determinant(lnk, staple, weight, subgroup, rng, R) ==
  Su2Divide(lnk, staple, weight, subgroup, rng, R, CSqrt(Det2(R)))

\* lines 86-87: W = link * staple; A = extract_su2(W, subgroup)
su2_heatbath_update(lnk, staple, weight, subgroup, rng) ==
  Su2Determinant(lnk, staple, weight, subgroup, rng,
                 extract_su2(MatMul(lnk, staple), subgroup))

\* The lattice of the link field: HbVolume sites, HbNd links per site.
HbVolume == 2
HbNd == 2
FieldSize == HbVolume * HbNd
FieldSiteSize == HbNd
\* LatticeColourMatrix: flat storage, (site, offset) at site * site_size + offset;
\* the element of flat index l is FieldGet(field, l)
FieldAt(site, offset) == site * FieldSiteSize + offset
FieldGet(field, l) == field[l + 1]
IdentityField == [l \in 1..FieldSize |-> MatIdentity(Nc)]

\* gauge::Action: beta() and compute_staples(field, link_index).  An action
\* is a record [kind, coef, beta]; beta is held in units of ln 2.
\*   "zero" : no staple contributes (the empty sum)
\*   "chain": coef times the adjoint of the next link of the field
ActionBeta(act) == act.beta
compute_staples(act, field, link_index) ==
  IF act.kind = "zero" THEN MatZero(Nc)
  ELSE MatScale(Re(act.coef),
                MatAdjoint(FieldGet(field, (link_index + 1) % FieldSize)))

\* a decoding that takes the remainder for the site as well
LinkSiteByRemainder(link_index) == link_index % FieldSiteSize

\* the link a link index addresses: gauge_field(link_index / site_size,
\* link_index % site_size)
LinkSite(link_index) == link_index \div FieldSiteSize
\* a decoding that always addresses the first link of the site
LinkDirZero(link_index) == 0
LinkDir(link_index)  == link_index % FieldSiteSize
LinkAt(link_index) == FieldAt(LinkSite(link_index), LinkDir(link_index))

\* Real beta_prime = action.beta() / Nc
BetaPrime(act) == CDiv(ActionBeta(act), Re(Nc))

----------------------------------------------------------------------------
(* Idle values of the components a specification does not run.             *)

PosIdle ==
  /\ posNc = 0 /\ posIndex = 0
  /\ posOut = [status |-> "none", i |-> 0, j |-> 0]

HbIdle ==
  /\ gauge_field = <<>> /\ action = [kind |-> "none"] /\ num_iter = 0
  /\ seed = 0 /\ rngState = 0 /\ rngLog = <<>>
  /\ hbPc = "off" /\ sweep = 0 /\ link = 0 /\ hbStaple = <<>> /\ hbSubgroup = 0
  /\ callLog = <<>>
  /\ su2Trace = <<>> /\ run = 0 /\ firstField = <<>> /\ firstLog = <<>>

CgIdle ==
  /\ cgAction = [kind |-> "none"] /\ rhs = <<>> /\ max_iter = 0
  /\ tolSq = Zero /\ relTol = FALSE /\ solution = <<>> /\ resid = <<>>
  /\ pvec = <<>> /\ cgIter = 0 /\ cgPc = "off" /\ lastResSq = Zero

HopIdle ==
  /\ shape = <<>> /\ phases = <<>> /\ Nhops = 0 /\ hopField = <<>>
  /\ site_index = 0
  /\ dirn = 0 /\ hop = 0 /\ site_coords = <<>> /\ ctorPc = "off"
  /\ scattered_gauge_field = <<>> /\ neighbour_array_indices = <<>>

AppIdle ==
  /\ spin_structures = <<>> /\ appIn = <<>> /\ appOut = <<>>
  /\ pre_gather_results = <<>> /\ arr_index = 0 /\ mu = 0 /\ appPc = "off"
  /\ appGarbage = Zero /\ appPlan = <<>> /\ callNo = 0 /\ appResults = <<>>
  /\ appAccess = {}

GenIdle ==
  /\ genWeight = Zero /\ genSeed = 0 /\ genRng = RngSeed(0)
  /\ genLambdaSq = Zero /\ genUniformSq = Zero /\ genDraws = <<>>
  /\ genRounds = 0 /\ genPc = "off" /\ genResult = <<>>

----------------------------------------------------------------------------
(* Specification SpecPos: calls of compute_su2_subgroup_pos<nc>(index).    *)

MaxNc == 5
MaxIndex == 12

InitPos ==
  /\ posNc \in 2..MaxNc
  /\ posIndex \in 0..MaxIndex
  /\ posOut = [status |-> "none", i |-> 0, j |-> 0]
  /\ HbIdle /\ CgIdle /\ HopIdle /\ AppIdle /\ GenIdle

PosCall ==
  /\ posOut.status = "none"
  /\ posOut' = compute_su2_subgroup_pos(posNc, posIndex)
  /\ UNCHANGED <<posNc, posIndex, hbVars, cgVars, hopVars, appVars, genVars>>

NextPos == PosCall
SpecPos == InitPos /\ [][NextPos]_vars

\* the unordered index pairs (i, j), 0 <= i < j < nc, and their place in
\* the lexicographic enumeration
PairsOf(nc) == {q \in (0..(nc - 1)) \X (0..(nc - 1)) : q[1] < q[2]}
LexBefore(q, r) == q[1] < r[1] \/ (q[1] = r[1] /\ q[2] < r[2])
LexRank(nc, q) == Cardinality({r \in PairsOf(nc) : LexBefore(r, q)})

\* C1: for every Nc >= 2, compute_su2_subgroup_pos<Nc>(k) returns the k-th
\* pair of the lexicographic enumeration for every k < Nc(Nc-1)/2, and
\* raises a range error for every k >= Nc(Nc-1)/2.
C1_SubgroupPosContract ==
  posOut.status # "none" =>
    IF posIndex < NumSubgroups(posNc)
    THEN /\ posOut.status = "ok"
         /\ <<posOut.i, posOut.j>> \in PairsOf(posNc)
         /\ LexRank(posNc, <<posOut.i, posOut.j>>) = posIndex
    ELSE posOut.status = "range_error"

\* a call with a valid index of a group with more subgroups than colours
C1_ValidIndexCalled ==
  /\ posOut.status # "none"
  /\ posNc <= posIndex /\ posIndex < NumSubgroups(posNc)


----------------------------------------------------------------------------
(* Specification SpecHb: a seeded run of heatbath_update on the identity   *)
(* field, followed by a second run from the same seed and field.           *)

MaxSeed == 3
MaxSweeps == 2

HbActions ==
  { [kind |-> "zero",  coef |-> 0, beta |-> Frac(3, 2)],
    [kind |-> "chain", coef |-> 1, beta |-> Frac(3, 2)],
    [kind |-> "chain", coef |-> 2, beta |-> Frac(3, 4)] }

InitHb ==
  /\ action \in HbActions
  /\ num_iter \in 0..MaxSweeps
  /\ seed \in 0..MaxSeed
  /\ gauge_field = IdentityField
  /\ rngState = RngSeed(seed).s
  /\ rngLog = <<>>
  /\ hbPc = "idle" /\ sweep = 0 /\ link = 0
  /\ hbStaple = MatZero(Nc) /\ hbSubgroup = 0
  /\ callLog = <<>> /\ su2Trace = <<>>
  /\ run = 1 /\ firstField = IdentityField /\ firstLog = <<>>
  /\ PosIdle /\ CgIdle /\ HopIdle /\ AppIdle /\ GenIdle

\* an entry that keeps the loop counters of the previous call
HbCallKeepsCounters ==
  /\ hbPc = "idle"
  /\ hbPc' = "sweep"
  /\ UNCHANGED <<gauge_field, action, num_iter, seed, rngState, rngLog,
                 sweep, link, hbStaple, hbSubgroup, callLog, su2Trace, run,
                 firstField, firstLog>>
  /\ UNCHANGED <<posVars, cgVars, hopVars, appVars, genVars>>

\* heatbath_update is entered: num_links read, i = 0, link = 0
HbCall ==
  /\ hbPc = "idle"
  /\ hbPc' = "sweep" /\ sweep' = 0 /\ link' = 0
  /\ UNCHANGED <<gauge_field, action, num_iter, seed, rngState, rngLog,
                 hbStaple, hbSubgroup, callLog, su2Trace, run, firstField,
                 firstLog>>
  /\ UNCHANGED <<posVars, cgVars, hopVars, appVars, genVars>>

\* heatbath_link_update(gauge_field, action, link) is entered (lines
\* 103-108): the staple is computed, the link is bound, subgroup = 0
HbLinkBegin ==
  /\ hbPc = "sweep" /\ sweep < num_iter /\ link < FieldSize
  /\ hbStaple' = compute_staples(action, gauge_field, link)
  /\ hbSubgroup' = 0
  /\ su2Trace' = <<>>
  /\ callLog' = Append(callLog, [sweep |-> sweep, link |-> link,
                                 at |-> LinkAt(link)])
  /\ hbPc' = "link"
  /\ UNCHANGED <<gauge_field, action, num_iter, seed, rngState, rngLog,
                 sweep, link, run, firstField, firstLog>>
  /\ UNCHANGED <<posVars, cgVars, hopVars, appVars, genVars>>

\* a subgroup loop that runs from the last subgroup down to the first
HbSubgroupDescending ==
  /\ hbPc = "link" /\ hbSubgroup < NumSubgroups(Nc)
  /\ LET u == su2_heatbath_update(FieldGet(gauge_field, LinkAt(link)),
                                  hbStaple, BetaPrime(action),
                                  NumSubgroups(Nc) - 1 - hbSubgroup,
                                  [s |-> rngState, log |-> rngLog])
     IN  /\ gauge_field' = [gauge_field EXCEPT ![LinkAt(link) + 1] = u.link]
         /\ rngState' = u.rng.s
         /\ rngLog' = u.rng.log
         /\ su2Trace' = Append(su2Trace, u.step)
  /\ hbSubgroup' = hbSubgroup + 1
  /\ UNCHANGED <<action, num_iter, seed, hbPc, sweep, link, hbStaple, callLog,
                 run, firstField, firstLog>>
  /\ UNCHANGED <<posVars, cgVars, hopVars, appVars, genVars>>

\* one pass of the subgroup loop: su2_heatbath_update(link, staple,
\* beta_prime, subgroup); link is a reference into the field
HbSubgroup ==
  /\ hbPc = "link" /\ hbSubgroup < NumSubgroups(Nc)
  /\ LET u == su2_heatbath_update(FieldGet(gauge_field, LinkAt(link)),
                                  hbStaple, BetaPrime(action), hbSubgroup,
                                  [s |-> rngState, log |-> rngLog])
     IN  /\ gauge_field' = [gauge_field EXCEPT ![LinkAt(link) + 1] = u.link]
         /\ rngState' = u.rng.s
         /\ rngLog' = u.rng.log
         /\ su2Trace' = Append(su2Trace, u.step)
  /\ hbSubgroup' = hbSubgroup + 1
  /\ UNCHANGED <<action, num_iter, seed, hbPc, sweep, link, hbStaple, callLog,
                 run, firstField, firstLog>>
  /\ UNCHANGED <<posVars, cgVars, hopVars, appVars, genVars>>

\* the subgroup loop ends: heatbath_link_update returns, ++link
HbLinkEnd ==
  /\ hbPc = "link" /\ hbSubgroup = NumSubgroups(Nc)
  /\ hbPc' = "sweep" /\ link' = link + 1
  /\ UNCHANGED <<gauge_field, action, num_iter, seed, rngState, rngLog,
                 sweep, hbStaple, hbSubgroup, callLog, su2Trace, run, firstField,
                 firstLog>>
  /\ UNCHANGED <<posVars, cgVars, hopVars, appVars, genVars>>

\* the inner loop ends: ++i, link = 0
HbNextSweep ==
  /\ hbPc = "sweep" /\ sweep < num_iter /\ link = FieldSize
  /\ sweep' = sweep + 1 /\ link' = 0
  /\ UNCHANGED <<gauge_field, action, num_iter, seed, rngState, rngLog, hbPc,
                 hbStaple, hbSubgroup, callLog, su2Trace, run, firstField,
                 firstLog>>
  /\ UNCHANGED <<posVars, cgVars, hopVars, appVars, genVars>>

\* the outer loop ends: heatbath_update returns
HbReturn ==
  /\ hbPc = "sweep" /\ sweep = num_iter
  /\ hbPc' = "done"
  /\ UNCHANGED <<gauge_field, action, num_iter, seed, rngState, rngLog,
                 sweep, link, hbStaple, hbSubgroup, callLog, su2Trace, run,
                 firstField, firstLog>>
  /\ UNCHANGED <<posVars, cgVars, hopVars, appVars, genVars>>

\* the caller keeps the first run's field and calls, re-seeds the random
\* source with the same seed and starts again from the identity field
HbRerun ==
  /\ hbPc = "done" /\ run = 1
  /\ firstField' = gauge_field /\ firstLog' = rngLog
  /\ gauge_field' = IdentityField
  /\ rngState' = RngSeed(seed).s /\ rngLog' = <<>>
  /\ run' = 2 /\ hbPc' = "idle" /\ callLog' = <<>> /\ su2Trace' = <<>>
  /\ UNCHANGED <<action, num_iter, seed, sweep, link, hbStaple, hbSubgroup>>
  /\ UNCHANGED <<posVars, cgVars, hopVars, appVars, genVars>>

NextHb ==
  \/ HbCall \/ HbLinkBegin \/ HbSubgroup \/ HbLinkEnd
  \/ HbNextSweep \/ HbReturn \/ HbRerun
SpecHb == InitHb /\ [][NextHb]_vars

\* C2: starting from the identity field, after any number of sweeps, for
\* any action (a zero staple included), every link of the field is an
\* element of SU(Nc).
C2_LinksStayInSU ==
  \A l \in 1..FieldSize : IsSU(gauge_field[l])

\* a sweep has updated a link
C2_LinkUpdated ==
  hbPc = "done" /\ num_iter >= 1 /\ gauge_field # IdentityField

\* every link is in SU(Nc) or holds a non-finite entry
HbLinksInSUOrNonFinite ==
  \A l \in 1..FieldSize :
    IsSU(gauge_field[l]) \/ ~MatFinite(gauge_field[l])

\* C3: in su2_heatbath_update, when a < 6 epsilon the matrix inserted into
\* the link is the random SU(2) matrix X alone: the division by
\* sqrt(det R) and the factor A-dagger are not applied on that path.
C3_DegenerateInsertsX ==
  \A n \in 1..Len(su2Trace) :
    su2Trace[n].det_is_zero => su2Trace[n].inserted = su2Trace[n].X

\* an update has taken the degenerate branch
C3_DegenerateTaken ==
  \E n \in 1..Len(su2Trace) : su2Trace[n].det_is_zero

\* C4: heatbath_update makes exactly num_iter sweeps; each sweep calls
\* heatbath_link_update once per link index, in ascending order, the link
\* addressed at site = index / site_size, direction = index % site_size;
\* a sweep starts only after the one before has updated its last link.
C4_SweepOrder ==
  /\ \A n \in 1..Len(callLog) :
       /\ callLog[n].sweep = (n - 1) \div (HbVolume * HbNd)
       /\ callLog[n].link = (n - 1) % (HbVolume * HbNd)
       /\ callLog[n].at = callLog[n].link
       /\ callLog[n].at =
            (callLog[n].link \div HbNd) * HbNd + (callLog[n].link % HbNd)
  /\ hbPc = "sweep" => Len(callLog) = sweep * (HbVolume * HbNd) + link
  /\ hbPc = "link" => Len(callLog) = sweep * (HbVolume * HbNd) + link + 1
  /\ hbPc = "done" => Len(callLog) = num_iter * (HbVolume * HbNd)

\* a call of two sweeps has returned
C4_TwoSweepsDone ==
  hbPc = "done" /\ num_iter = 2 /\ Len(callLog) = 2 * HbVolume * HbNd

C16_SubgroupLoop ==
  /\ [](hbPc = "link" =>
          /\ Len(su2Trace) = hbSubgroup
          /\ \A n \in 1..Len(su2Trace) :
               /\ su2Trace[n].subgroup = n - 1
               /\ su2Trace[n].staple = hbStaple
               /\ n > 1 => su2Trace[n].link_in =
                             MatMul(su2Trace[n - 1].N, su2Trace[n - 1].link_in)
          /\ su2Trace # <<>> =>
               FieldGet(gauge_field, link) =
                 MatMul(su2Trace[Len(su2Trace)].N,
                        su2Trace[Len(su2Trace)].link_in))
  /\ [][(hbPc = "sweep" /\ hbPc' = "link") =>
          /\ hbStaple' = compute_staples(action, gauge_field, link)
          /\ gauge_field' = gauge_field]_vars
  /\ [][(hbPc = "link" /\ hbPc' = "link") =>
          /\ hbStaple' = hbStaple
          /\ su2Trace'[Len(su2Trace')].link_in = FieldGet(gauge_field, link)]_vars
  /\ [][(hbPc = "link" /\ hbPc' = "sweep") =>
          Len(su2Trace) = NumSubgroups(Nc)]_vars

\* the three subgroups of a link have been processed with a staple that
\* is not zero, the first of them having changed the link
C16_ThreeSubgroupsDone ==
  /\ hbPc = "link" /\ hbSubgroup = 3 /\ hbStaple # MatZero(Nc)
  /\ su2Trace[2].link_in # su2Trace[1].link_in

\* the number of calls of heatbath_link_update begun on link k in this run
RECURSIVE CallsOn(_, _)
CallsOn(k, n) ==
  IF n = 0 THEN 0
  ELSE CallsOn(k, n - 1) + (IF callLog[n].link = k THEN 1 ELSE 0)

\* C18: heatbath_link_update on link l changes only the element of flat
\* index l of the field; no other step of a run changes the field.  So
\* when the staple of link l is computed in sweep i, the links of index
\* < l have had i + 1 updates and the links of index > l have had i.
C18_OnlyTheLinkChanges ==
  /\ [][run' = run =>
          \A k \in 1..FieldSize :
            gauge_field'[k] # gauge_field[k] =>
              (hbPc = "link" /\ k = link + 1)]_vars
  /\ [](hbPc = "link" =>
          \A k \in 0..(FieldSize - 1) :
            CallsOn(k, Len(callLog)) = IF k <= link THEN sweep + 1 ELSE sweep)

\* a link after the first is under update in the second sweep, the links
\* before it having been changed
C18_SecondSweepUnderWay ==
  /\ hbPc = "link" /\ sweep = 1 /\ link = 1 /\ hbSubgroup >= 1
  /\ gauge_field[1] # IdentityField[1]

----------------------------------------------------------------------------
(* Fermion actions and conjugate_gradient(action, rhs, max_iter, tol).     *)
(* A fermion field is a pair of complex numbers.                           *)

VecZero == <<Zero, Zero>>
\* <u, v>, conjugate in the first argument
VDot(u, v) == CAdd(CMul(CConj(u[1]), v[1]), CMul(CConj(u[2]), v[2]))
\* x + a * p
VAxpy(x, a, p) == <<CAdd(x[1], CMul(a, p[1])), CAdd(x[2], CMul(a, p[2]))>>

\* x / y on reals, reduced before the products are formed
RDivReduced(x, y, g1, g2) ==
  Norm((x[1] \div g1) * (y[3] \div g2), 0, (x[3] \div g2) * (y[1] \div g1))
RDiv(x, y) ==
  IF ~IsFinite(x) \/ ~IsFinite(y) \/ y[1] = 0 THEN NaN
  ELSE IF x[1] = 0 THEN Zero
  ELSE RDivReduced(x, y, Gcd(Abs(x[1]), Abs(y[1])), Gcd(x[3], y[3]))

\* a field that ignores the mass
TestActionIgnoresMass(mass, fermion_in) == fermion_in

\* TestAction::apply_full: fermion_out = this->mass_ * fermion_in
TestActionApplyFull(mass, fermion_in) ==
  <<CMul(mass, fermion_in[1]), CMul(mass, fermion_in[2])>>

\* an action with one real factor per component
DiagActionApplyFull(diag, fermion_in) ==
  <<CMul(diag[1], fermion_in[1]), CMul(diag[2], fermion_in[2])>>

\* Action::apply_full through the virtual call
apply_full(act, fermion_in) ==
  IF act.kind = "test" THEN TestActionApplyFull(act.mass, fermion_in)
  ELSE DiagActionApplyFull(act.diag, fermion_in)

\* both actions leave the field as it is
apply_hermiticity(act, fermion) == fermion
remove_hermiticity(act, fermion) == fermion

\* M-dagger v: apply_full wrapped in the hermiticity operations
ApplyAdjoint(act, v) ==
  remove_hermiticity(act, apply_full(act, apply_hermiticity(act, v)))
\* M-dagger M v
ApplyNormal(act, v) == ApplyAdjoint(act, apply_full(act, v))

\* one iteration of the solver, steps 1-5, from x, r, p
CgDirection(x1, r1, p, rr, rr1) ==
  [x |-> x1, r |-> r1, rr |-> rr1, p |-> VAxpy(r1, RDiv(rr1, rr), p)]
CgResidual(x1, r1, p, rr) == CgDirection(x1, r1, p, rr, VDot(r1, r1))
CgUpdate(x, r, p, q, rr, alpha) ==
  CgResidual(VAxpy(x, alpha, p), VAxpy(r, CNeg(alpha), q), p, rr)
CgAlpha(x, r, p, q, rr) == CgUpdate(x, r, p, q, rr, RDiv(rr, VDot(p, q)))
CgIteration(act, x, r, p) ==
  CgAlpha(x, r, p, ApplyNormal(act, p), VDot(r, r))

\* step 4: |r'|^2 <= tol^2 |b|^2, or |r'|^2 <= tol^2
Converged(rr) ==
  IF relTol THEN RLeq(rr, CMul(tolSq, VDot(rhs, rhs))) ELSE RLeq(rr, tolSq)

----------------------------------------------------------------------------
(* Specification SpecCg: one call of conjugate_gradient.                   *)

MaxIter == 3

CgActions ==
  {[kind |-> "test", mass |-> m, diag |-> <<>>] :
     m \in {Re(2), Re(-1), Frac(1, 2)}}
  \cup {[kind |-> "diag", mass |-> Zero, diag |-> d] :
     d \in {<<One, Re(2)>>, <<Re(2), One>>}}
CgSources == {<<One, Zero>>, <<Zero, One>>, <<One, One>>, <<CI, One>>}
CgTolerances == {Frac(1, 100), One}

InitCg ==
  /\ cgAction \in CgActions
  /\ rhs \in CgSources
  /\ max_iter \in 0..MaxIter
  /\ tolSq \in CgTolerances
  /\ relTol \in BOOLEAN
  /\ solution = VecZero /\ resid = VecZero /\ pvec = VecZero
  /\ cgIter = 0 /\ cgPc = "idle" /\ lastResSq = Zero
  /\ PosIdle /\ HbIdle /\ HopIdle /\ AppIdle /\ GenIdle

\* the loop test k < max_iter and its negation
CgLoopContinues == cgPc = "loop" /\ cgIter < max_iter
CgLoopEnds == cgPc = "loop" /\ cgIter = max_iter

\* entry: x = 0, r = M-dagger b, p = r
CgCall ==
  /\ cgPc = "idle"
  /\ \E r0 \in {ApplyAdjoint(cgAction, rhs)} :
       /\ resid' = r0 /\ pvec' = r0 /\ lastResSq' = VDot(r0, r0)
  /\ solution' = VecZero /\ cgIter' = 0 /\ cgPc' = "loop"
  /\ UNCHANGED <<cgAction, rhs, max_iter, tolSq, relTol>>
  /\ UNCHANGED <<posVars, hbVars, hopVars, appVars, genVars>>

\* an iteration whose loop test admits k = max_iter
CgIterateOffByOne ==
  /\ cgPc = "loop" /\ cgIter <= max_iter
  /\ \E it \in {CgIteration(cgAction, solution, resid, pvec)} :
       /\ solution' = it.x /\ resid' = it.r /\ lastResSq' = it.rr
       /\ pvec' = IF Converged(it.rr) THEN pvec ELSE it.p
       /\ cgPc' = IF Converged(it.rr) THEN "done" ELSE "loop"
  /\ cgIter' = cgIter + 1
  /\ UNCHANGED <<cgAction, rhs, max_iter, tolSq, relTol>>
  /\ UNCHANGED <<posVars, hbVars, hopVars, appVars, genVars>>

\* one iteration; returns (x, residual, k + 1) when the test is met
CgIterate ==
  /\ CgLoopContinues
  /\ \E it \in {CgIteration(cgAction, solution, resid, pvec)} :
       /\ solution' = it.x /\ resid' = it.r /\ lastResSq' = it.rr
       /\ pvec' = IF Converged(it.rr) THEN pvec ELSE it.p
       /\ cgPc' = IF Converged(it.rr) THEN "done" ELSE "loop"
  /\ cgIter' = cgIter + 1
  /\ UNCHANGED <<cgAction, rhs, max_iter, tolSq, relTol>>
  /\ UNCHANGED <<posVars, hbVars, hopVars, appVars, genVars>>

\* k has reached max_iter: returns (x, last residual, max_iter)
CgExhaust ==
  /\ CgLoopEnds
  /\ cgPc' = "done"
  /\ UNCHANGED <<cgAction, rhs, max_iter, tolSq, relTol, solution, resid,
                 pvec, cgIter, lastResSq>>
  /\ UNCHANGED <<posVars, hbVars, hopVars, appVars, genVars>>

NextCg == CgCall \/ CgIterate \/ CgExhaust
SpecCg == InitCg /\ [][NextCg]_vars

C7_CgTerminates ==
  /\ [](/\ cgIter <= max_iter
        /\ cgPc \in {"idle", "loop", "done"}
        /\ cgPc = "loop" => (CgLoopContinues \/ CgLoopEnds)
        /\ cgPc = "done" =>
             /\ lastResSq = VDot(resid, resid)
             /\ cgIter < max_iter => Converged(lastResSq)
             /\ ~Converged(lastResSq) => cgIter = max_iter)
  /\ [][/\ cgPc = "idle" => cgPc' = "loop"
        /\ cgPc = "loop" => (cgPc' = "done" \/ cgIter' = cgIter + 1)
        /\ cgPc = "done" => cgPc' = "done"]_vars

\* the solver has returned at max_iter >= 1 without convergence
C7_ExhaustedUnconverged ==
  /\ cgPc = "done" /\ max_iter >= 1 /\ cgIter = max_iter
  /\ ~Converged(lastResSq)

----------------------------------------------------------------------------
(* LexicoLayout and the HoppingMatrix constructor.  Site coordinates are   *)
(* unsigned 32-bit values, held as representatives (see UMod).             *)

Front(sq) == SubSeq(sq, 1, Len(sq) - 1)
LastOf(sq) == sq[Len(sq)]

\* layout.volume()
RECURSIVE Volume(_)
Volume(shp) == IF shp = <<>> THEN 1 ELSE Volume(Front(shp)) * LastOf(shp)

\* layout.compute_site_coords(site_index): mixed-radix decomposition
RECURSIVE compute_site_coords(_, _)
compute_site_coords(shp, index) ==
  IF shp = <<>> THEN <<>>
  ELSE Append(compute_site_coords(Front(shp), index \div LastOf(shp)),
              index % LastOf(shp))

\* layout.get_array_index(coords), coords in range
RECURSIVE get_array_index(_, _)
get_array_index(shp, coords) ==
  IF shp = <<>> THEN 0
  ELSE get_array_index(Front(shp), Front(coords)) * LastOf(shp)
         + LastOf(coords)

\* layout.get_site_index(array_index): the identity for LexicoLayout
get_site_index(array_index) == array_index

\* layout.sanitize_site_coords(coords): every component modulo its extent
RECURSIVE sanitize_site_coords(_, _)
sanitize_site_coords(shp, coords) ==
  IF shp = <<>> THEN <<>>
  ELSE Append(sanitize_site_coords(Front(shp), Front(coords)),
              UMod(LastOf(coords), LastOf(shp)))

\* gauge_field(site_coords, d)
GaugeAt(coords, d) ==
  hopField[get_array_index(shape, coords) * Len(shape) + d + 1]

\* the flat position of scattered_gauge_field_(site_index, k)
ScatIndex(site, k) == site * (2 * Len(shape)) + k + 1

\* a test that leaves out equality
PhaseFwdStrict(c, extent, phase) ==
  IF c + Nhops > extent THEN phase ELSE One

\* lines 87-88: phase_fwd
PhaseFwd(c, extent, phase) ==
  IF c + Nhops >= extent THEN phase ELSE One

\* lines 89-90: phase_bck
PhaseBck(c, phase) ==
  IF c < Nhops THEN phase ELSE One

\* lines 99-100: site_coords[d] += h - Nhops; sanitize
HopBackCoords(coords, d, h) ==
  sanitize_site_coords(shape, [coords EXCEPT ![d + 1] = @ + h - Nhops])

\* lines 104-105: site_coords[d] += Nhops; sanitize
HopFwdCoords(coords, d) ==
  sanitize_site_coords(shape, [coords EXCEPT ![d + 1] = @ + Nhops])

\* lines 113-114: site_coords[d] -= Nhops; sanitize
MinusCoords(coords, d) ==
  sanitize_site_coords(shape, [coords EXCEPT ![d + 1] = @ - Nhops])

\* lines 117-118: site_coords[d] += 2 * Nhops; sanitize
PlusCoords(coords, d) ==
  sanitize_site_coords(shape, [coords EXCEPT ![d + 1] = @ + 2 * Nhops])

----------------------------------------------------------------------------
(* Specification SpecHop: one construction of HoppingMatrix<Real, 3, H>.   *)

MaxExtent == 3
MaxHops == 2

\* the links of the supplied gauge field: distinct rotations that do not
\* commute, one per link index
HopC == << <<Zero, One, Zero>>, <<Zero, Zero, One>>, <<One, Zero, Zero>> >>
HopT == << <<Zero, Re(-1), Zero>>, <<One, Zero, Zero>>, <<Zero, Zero, One>> >>
RECURSIVE MatPow(_, _)
MatPow(A, n) == IF n = 0 THEN MatIdentity(Nc) ELSE MatMul(A, MatPow(A, n - 1))
HopLink(l) == MatMul(MatPow(HopC, l % 3), MatPow(HopT, (l \div 3) % 4))

HopShapes == {<<a, b>> : a \in 1..MaxExtent, b \in 1..MaxExtent}
HopPhases == {<<CI, Re(-1)>>, <<One, CI>>}

InitHop ==
  /\ shape \in HopShapes
  /\ phases \in HopPhases
  /\ Nhops \in 1..MaxHops
  /\ hopField = [l \in 1..(Volume(shape) * Len(shape)) |-> HopLink(l - 1)]
  /\ site_index = 0 /\ dirn = 0 /\ hop = 0 /\ site_coords = <<>>
  /\ ctorPc = "idle"
  /\ scattered_gauge_field = <<>> /\ neighbour_array_indices = <<>>
  /\ PosIdle /\ HbIdle /\ CgIdle /\ AppIdle /\ GenIdle

\* lines 69-80: the members are allocated, site_index = 0
CtorCall ==
  /\ ctorPc = "idle"
  /\ scattered_gauge_field' =
       [k \in 1..(Volume(shape) * 2 * Len(shape)) |-> MatZero(Nc)]
  /\ neighbour_array_indices' =
       [a \in 1..Volume(shape) |-> [k \in 1..(2 * Len(shape)) |-> 0]]
  /\ site_index' = 0 /\ dirn' = 0 /\ hop' = 0 /\ ctorPc' = "phase"
  /\ UNCHANGED <<shape, phases, Nhops, hopField, site_coords>>
  /\ UNCHANGED <<posVars, hbVars, cgVars, appVars, genVars>>

\* lines 85-95: the coordinates of the site, the two phases, the two
\* entries set to the identity times the phase
CtorPhase ==
  /\ ctorPc = "phase" /\ site_index < Volume(shape)
  /\ \E sc \in {compute_site_coords(shape, site_index)} :
       /\ site_coords' = sc
       /\ scattered_gauge_field' =
            [scattered_gauge_field EXCEPT
               ![ScatIndex(site_index, 2 * dirn)] =
                  MatScale(PhaseBck(sc[dirn + 1], phases[dirn + 1]),
                           MatIdentity(Nc)),
               ![ScatIndex(site_index, 2 * dirn + 1)] =
                  MatScale(PhaseFwd(sc[dirn + 1], shape[dirn + 1],
                                    phases[dirn + 1]),
                           MatIdentity(Nc))]
  /\ hop' = 0 /\ ctorPc' = "hop"
  /\ UNCHANGED <<shape, phases, Nhops, hopField, site_index, dirn,
                 neighbour_array_indices>>
  /\ UNCHANGED <<posVars, hbVars, cgVars, appVars, genVars>>

\* lines 98-110: one pass of the loop over h
CtorHop ==
  /\ ctorPc = "hop" /\ hop < Nhops
  /\ \E c1 \in {HopBackCoords(site_coords, dirn, hop)} :
       \E c2 \in {HopFwdCoords(c1, dirn)} :
         /\ scattered_gauge_field' =
              [scattered_gauge_field EXCEPT
                 ![ScatIndex(site_index, 2 * dirn)] =
                    MatMul(@, GaugeAt(c1, dirn)),
                 ![ScatIndex(site_index, 2 * dirn + 1)] =
                    MatMul(@, GaugeAt(c2, dirn))]
         /\ site_coords' = [c2 EXCEPT ![dirn + 1] = @ - hop]
  /\ hop' = hop + 1
  /\ UNCHANGED <<shape, phases, Nhops, hopField, site_index, dirn, ctorPc,
                 neighbour_array_indices>>
  /\ UNCHANGED <<posVars, hbVars, cgVars, appVars, genVars>>

\* lines 112-127: the two neighbours of the site along d; ++d, ++site_index
CtorNeighbours ==
  /\ ctorPc = "hop" /\ hop = Nhops
  /\ \E m \in {MinusCoords(site_coords, dirn)} :
       \E pl \in {PlusCoords(m, dirn)} :
         /\ neighbour_array_indices' =
              [neighbour_array_indices EXCEPT
                 ![site_index + 1] =
                    [@ EXCEPT
                       ![2 * dirn + 1] =
                          get_site_index(get_array_index(shape, m)),
                       ![2 * dirn + 2] =
                          get_site_index(get_array_index(shape, pl))]]
         /\ site_coords' = [pl EXCEPT ![dirn + 1] = @ - Nhops]
  /\ IF dirn + 1 < Len(shape)
     THEN dirn' = dirn + 1 /\ site_index' = site_index
     ELSE dirn' = 0 /\ site_index' = site_index + 1
  /\ hop' = 0 /\ ctorPc' = "phase"
  /\ UNCHANGED <<shape, phases, Nhops, hopField, scattered_gauge_field>>
  /\ UNCHANGED <<posVars, hbVars, cgVars, appVars, genVars>>

\* line 80: site_index = volume, the constructor returns
CtorReturn ==
  /\ ctorPc = "phase" /\ site_index = Volume(shape)
  /\ ctorPc' = "done"
  /\ UNCHANGED <<shape, phases, Nhops, hopField, site_index, dirn, hop,
                 site_coords, scattered_gauge_field, neighbour_array_indices>>
  /\ UNCHANGED <<posVars, hbVars, cgVars, appVars, genVars>>

NextHop == CtorCall \/ CtorPhase \/ CtorHop \/ CtorNeighbours \/ CtorReturn
SpecHop == InitHop /\ [][NextHop]_vars

\* the array index of site + k e_d, the d-coordinate taken modulo its
\* extent (k may be negative)
ShiftSite(site, d, k) ==
  get_array_index(shape,
    [compute_site_coords(shape, site) EXCEPT
       ![d + 1] = (@ + k) % shape[d + 1]])

\* U_d(site)
LinkU(site, d) == hopField[site * Len(shape) + d + 1]

\* U_d(site + start e_d) * ... * U_d(site + (start + n - 1) e_d)
RECURSIVE LineProduct(_, _, _, _)
LineProduct(site, d, start, n) ==
  IF n = 0 THEN MatIdentity(Nc)
  ELSE MatMul(LinkU(ShiftSite(site, d, start), d),
              LineProduct(site, d, start + 1, n - 1))

\* the factors the entries of (site, d) are to carry
FactorFwd(site, d) ==
  IF compute_site_coords(shape, site)[d + 1] + Nhops >= shape[d + 1]
  THEN phases[d + 1] ELSE One
FactorBck(site, d) ==
  IF compute_site_coords(shape, site)[d + 1] < Nhops
  THEN phases[d + 1] ELSE One

HopSites == 0..(Volume(shape) - 1)
HopAxes == 0..(Len(shape) - 1)
PowerOfTwoShape == \A i \in 1..Len(shape) : shape[i] \in {1, 2, 4, 8}

ProductsAt(site, d) ==
  /\ scattered_gauge_field[ScatIndex(site, 2 * d + 1)] =
       MatScale(FactorFwd(site, d), LineProduct(site, d, 0, Nhops))
  /\ scattered_gauge_field[ScatIndex(site, 2 * d)] =
       MatScale(FactorBck(site, d), LineProduct(site, d, -Nhops, Nhops))

NeighboursAt(site, d) ==
  /\ neighbour_array_indices[site + 1][2 * d + 1] = ShiftSite(site, d, -Nhops)
  /\ neighbour_array_indices[site + 1][2 * d + 2] = ShiftSite(site, d, Nhops)

\* C8: after construction, for every site and axis the forward entry is
\* phi+ times U_d(s) U_d(s + e_d) ... U_d(s + (H-1) e_d) and the backward
\* entry is phi- times U_d(s - H e_d) ... U_d(s - e_d), coordinates under
\* periodic wrap, for H = 1 and H = 2, boundary sites included.
C8_HopProducts ==
  ctorPc = "done" =>
    \A site \in HopSites : \A d \in HopAxes : ProductsAt(site, d)

\* a construction on a lattice with an extent of 3 has returned
C8_OddExtentBuilt ==
  ctorPc = "done" /\ \E i \in 1..Len(shape) : shape[i] = 3

\* on lattices whose extents are powers of two the products are as stated
HopProductsOnPowerOfTwo ==
  (ctorPc = "done" /\ PowerOfTwoShape) =>
    \A site \in HopSites : \A d \in HopAxes : ProductsAt(site, d)

\* C9: the forward entry carries phase[d] exactly when c + H >= extent[d]
\* and the backward entry exactly when c < H, the factor being 1
\* otherwise (so no entry of an interior site carries a phase); the hops
\* only multiply links onto the entries.
C9_PhaseFactors ==
  /\ []((ctorPc = "hop" /\ hop = 0) =>
          /\ scattered_gauge_field[ScatIndex(site_index, 2 * dirn + 1)] =
               MatScale(FactorFwd(site_index, dirn), MatIdentity(Nc))
          /\ scattered_gauge_field[ScatIndex(site_index, 2 * dirn)] =
               MatScale(FactorBck(site_index, dirn), MatIdentity(Nc)))
  /\ [][(ctorPc = "hop" /\ hop < Nhops) =>
          \A k \in {2 * dirn, 2 * dirn + 1} :
            \E l \in 1..Len(hopField) :
              scattered_gauge_field'[ScatIndex(site_index, k)] =
                MatMul(scattered_gauge_field[ScatIndex(site_index, k)],
                       hopField[l])]_vars

\* the entries of a site at the upper boundary only have been initialised
C9_ForwardBoundarySite ==
  /\ ctorPc = "hop" /\ hop = 0
  /\ site_coords[dirn + 1] + Nhops >= shape[dirn + 1]
  /\ site_coords[dirn + 1] >= Nhops
  /\ phases[dirn + 1] # One
  /\ scattered_gauge_field[ScatIndex(site_index, 2 * dirn)] = MatIdentity(Nc)

\* C10: for every shape (extents that are not powers of two and extents
\* <= H included), every site and axis, the two neighbour-table entries
\* are the array indices of s - H e_d and s + H e_d, the d-coordinate
\* reduced modulo extent[d]; the unsigned arithmetic never yields another
\* site.
C10_NeighbourTable ==
  ctorPc = "done" =>
    \A site \in HopSites : \A d \in HopAxes : NeighboursAt(site, d)

\* a construction on a lattice with an extent of 3 and H = 1 has returned
C10_OddExtentOneHop ==
  ctorPc = "done" /\ Nhops = 1 /\ \E i \in 1..Len(shape) : shape[i] = 3

\* on lattices whose extents are powers of two the table is as stated
NeighboursOnPowerOfTwo ==
  (ctorPc = "done" /\ PowerOfTwoShape) =>
    \A site \in HopSites : \A d \in HopAxes : NeighboursAt(site, d)

----------------------------------------------------------------------------
(* HoppingMatrix::set_spin_structures and HoppingMatrix::apply_full.  A    *)
(* colour vector is a tuple of Nc complex numbers.  A spinor field is the  *)
(* record [layout, site_size, data]: the shape of its layout, its number   *)
(* of elements per site and the flat sequence of its colour vectors, the   *)
(* code's element [i] being data[i + 1].  A read outside a container       *)
(* yields what lies in memory there (appGarbage in every component), a     *)
(* write outside it changes nothing the program looks at, and either may   *)
(* stop the program (AppFault).                                            *)

CvZero == [c \in 1..Nc |-> Zero]
CvAdd(u, v) == [c \in 1..Nc |-> CAdd(u[c], v[c])]
CvScale(z, v) == [c \in 1..Nc |-> CMul(z, v[c])]
MatVec(A, v) ==
  [r \in 1..Nc |->
     CAdd(CAdd(CMul(A[r][1], v[1]), CMul(A[r][2], v[2])), CMul(A[r][3], v[3]))]

Field(shp, n, elems) == [layout |-> shp, site_size |-> n, data |-> elems]
FieldZero(shp, n) == Field(shp, n, [i \in 1..(Volume(shp) * n) |-> CvZero])
FieldAdd(f, g) == [f EXCEPT !.data = [i \in 1..Len(f.data) |->
                                        CvAdd(f.data[i], g.data[i])]]
FieldScale(z, f) == [f EXCEPT !.data = [i \in 1..Len(f.data) |->
                                          CvScale(z, f.data[i])]]

RECURSIVE Pow2(_)
Pow2(n) == IF n = 0 THEN 1 ELSE 2 * Pow2(n - 1)

\* line 70: num_spins_(std::pow(2u, gauge_field.num_dims() / 2))
num_spins == Pow2(Len(shape) \div 2)

GarbageVec == [c \in 1..Nc |-> appGarbage]
GarbageMat == MatScale(appGarbage, MatIdentity(Nc))

\* fermion_in[i]
InAt(i) == IF i < Len(appIn.data) THEN appIn.data[i + 1] ELSE GarbageVec

\* scattered_gauge_field_[i]
ScatAt(i) ==
  IF i < Len(scattered_gauge_field) THEN scattered_gauge_field[i + 1]
  ELSE GarbageMat

\* spin_structures_[k].coeff(alpha, beta)
SpinCoeff(k, alpha, beta) ==
  IF k < Len(spin_structures)
  THEN IF alpha < Len(spin_structures[k + 1])
          /\ beta < Len(spin_structures[k + 1][alpha + 1])
       THEN spin_structures[k + 1][alpha + 1][beta + 1]
       ELSE appGarbage
  ELSE appGarbage

\* neighbour_array_indices_[arr][k]
NeighbourAt(arr, k) ==
  IF arr < Len(neighbour_array_indices)
  THEN IF k < Len(neighbour_array_indices[arr + 1])
       THEN neighbour_array_indices[arr + 1][k + 1]
       ELSE 0
  ELSE 0

\* pre_gather_results[i]
PreAt(i) ==
  IF i < Len(pre_gather_results) THEN pre_gather_results[i + 1]
  ELSE GarbageVec

\* lines 149-150: ndims and volume are those of fermion_in's layout
AppNdims == Len(appIn.layout)
AppVolume == Volume(appIn.layout)

\* line 156: local_index
LocalIndex(arr, m) == 2 * (AppNdims * arr + m)

\* lines 159, 163: the flat index of the partial of (arr, m, alpha, sign)
PreIndex(arr, m, alpha, sign) ==
  num_spins * LocalIndex(arr, m) + 2 * alpha + sign

\* lines 162, 166: the flat index of the input component read for beta
InIndex(arr, beta) == AppNdims * arr + beta

\* lines 161, 165: the colour matrix of a partial
ScatFactor(arr, m, sign) ==
  IF sign = 0 THEN ScatAt(LocalIndex(arr, m))
  ELSE MatAdjoint(ScatAt(LocalIndex(arr, m) + 1))

\* lines 158-167: what the loop over beta adds to one partial, beta < n
RECURSIVE SpinSum(_, _, _, _, _)
SpinSum(arr, m, alpha, sign, n) ==
  IF n = 0 THEN CvZero
  ELSE CvAdd(SpinSum(arr, m, alpha, sign, n - 1),
             CvScale(SpinCoeff(2 * m + sign, alpha, n - 1),
                     MatVec(ScatFactor(arr, m, sign),
                            InAt(InIndex(arr, n - 1)))))

\* the (alpha, sign) whose partial is element i of pre_gather_results
PreTargets(arr, m, i) ==
  {p \in (0..(num_spins - 1)) \X {0, 1} : PreIndex(arr, m, p[1], p[2]) = i}

\* lines 159-166: += on the elements of pre_gather_results
RECURSIVE PreAdd(_, _, _, _)
PreAddNext(v, arr, m, targets, p) ==
  PreAdd(CvAdd(v, SpinSum(arr, m, p[1], p[2], num_spins)), arr, m,
         targets \ {p})
PreAdd(v, arr, m, targets) ==
  IF targets = {} THEN v
  ELSE PreAddNext(v, arr, m, targets, CHOOSE p \in targets : TRUE)

\* lines 156-168: the multiply phase for one (arr_index, mu)
MultiplyStep(arr, m) ==
  [i \in 1..Len(pre_gather_results) |->
     PreAdd(pre_gather_results[i], arr, m, PreTargets(arr, m, i - 1))]

\* a gather index that leaves out the stride of alpha
GatherIndexUnitStride(arr, m, alpha) ==
  2 * (num_spins * (AppNdims * arr + m)) + alpha

\* lines 179-180: gather_index
GatherIndex(arr, m, alpha) == 2 * (num_spins * (AppNdims * arr + m) + alpha)

\* lines 181, 183: the flat index of the output component written
OutIndex(neighbour, alpha) == num_spins * neighbour + alpha

\* lines 174-177: neighbour_index_plus (sign 0) and neighbour_index_minus
\* (sign 1)
NeighbourOf(arr, m, sign) == NeighbourAt(arr, 2 * m + sign)

\* the (alpha, sign) whose partial is added to element i of fermion_out
OutTargets(arr, m, i) ==
  {p \in (0..(num_spins - 1)) \X {0, 1} :
     OutIndex(NeighbourOf(arr, m, p[2]), p[1]) = i}

\* lines 181-184: += on the elements of fermion_out
RECURSIVE OutAdd(_, _, _, _)
OutAddNext(v, arr, m, targets, p) ==
  OutAdd(CvAdd(v, PreAt(GatherIndex(arr, m, p[1]) + p[2])), arr, m,
         targets \ {p})
OutAdd(v, arr, m, targets) ==
  IF targets = {} THEN v
  ELSE OutAddNext(v, arr, m, targets, CHOOSE p \in targets : TRUE)

\* lines 173-186: the scatter phase for one (arr_index, mu)
ScatterStep(arr, m) ==
  [appOut EXCEPT !.data =
     [i \in 1..Len(appOut.data) |->
        OutAdd(appOut.data[i], arr, m, OutTargets(arr, m, i - 1))]]

AppSpins == 0..(num_spins - 1)

\* the accesses of the multiply phase for one (arr_index, mu)
MultiplyAccess(arr, m) ==
  {[op |-> "read_in", site |-> arr, axis |-> m, spin |-> beta, sign |-> 0,
    idx |-> InIndex(arr, beta)] : beta \in AppSpins}
  \cup {[op |-> "read_scattered", site |-> arr, axis |-> m, spin |-> 0,
         sign |-> sign, idx |-> LocalIndex(arr, m) + sign] :
          sign \in {0, 1}}
  \cup {[op |-> "write_partial", site |-> arr, axis |-> m, spin |-> p[1],
         sign |-> p[2], idx |-> PreIndex(arr, m, p[1], p[2])] :
          p \in AppSpins \X {0, 1}}

\* the accesses of the scatter phase for one (arr_index, mu); site is the
\* site written to for write_out
ScatterAccess(arr, m) ==
  {[op |-> "read_partial", site |-> arr, axis |-> m, spin |-> p[1],
    sign |-> p[2], idx |-> GatherIndex(arr, m, p[1]) + p[2]] :
     p \in AppSpins \X {0, 1}}
  \cup {[op |-> "write_out", site |-> NeighbourOf(arr, m, p[2]), axis |-> m,
         spin |-> p[1], sign |-> p[2],
         idx |-> OutIndex(NeighbourOf(arr, m, p[2]), p[1])] :
          p \in AppSpins \X {0, 1}}

\* some access of the multiply phase for (arr, m) falls outside its
\* container
MultiplyOutOfRange(arr, m) ==
  IF 2 * m + 1 >= Len(spin_structures) THEN TRUE
  ELSE \/ \E k \in {2 * m + 1, 2 * m + 2} :
            \/ Len(spin_structures[k]) < num_spins
            \/ \E r \in 1..Len(spin_structures[k]) :
                 Len(spin_structures[k][r]) < num_spins
       \/ LocalIndex(arr, m) + 1 >= Len(scattered_gauge_field)
       \/ InIndex(arr, num_spins - 1) >= Len(appIn.data)
       \/ PreIndex(arr, m, num_spins - 1, 1) >= Len(pre_gather_results)

\* some access of the scatter phase for (arr, m) falls outside its
\* container
ScatterOutOfRange(arr, m) ==
  IF arr >= Len(neighbour_array_indices) THEN TRUE
  ELSE \/ 2 * m + 1 >= Len(neighbour_array_indices[arr + 1])
       \/ GatherIndex(arr, m, num_spins - 1) + 1 >= Len(pre_gather_results)
       \/ \E sign \in {0, 1} :
            OutIndex(NeighbourOf(arr, m, sign), num_spins - 1)
              >= Len(appOut.data)

----------------------------------------------------------------------------
(* Specification SpecApp: one construction of HoppingMatrix<Real, 3, H>,   *)
(* then set_spin_structures (or not), then a sequence of calls of          *)
(* apply_full on that matrix.                                              *)

MaxAppExtent == 2
MaxAppVolume == 4
AppDims == {1, 2, 3}

AppShapes ==
  {shp \in UNION {[1..n -> 1..MaxAppExtent] : n \in AppDims} :
     Volume(shp) <= MaxAppVolume}
AppPhases(shp) == [d \in 1..Len(shp) |-> IF d = 2 THEN Re(-1) ELSE CI]

\* the spin structures supplied: 2 * Nd matrices of num_spins rows and
\* columns, all different, none symmetric
AppSpinStructures ==
  [k \in 1..(2 * Len(shape)) |->
     [a \in 1..num_spins |->
        [b \in 1..num_spins |-> Cx(k, 2 * (a - 1) + b - 2)]]]

\* the spinor fields supplied
UnitSource(shp, n) ==
  Field(shp, n, [i \in 1..(Volume(shp) * n) |->
                   IF i = 1 THEN <<One, Zero, Zero>> ELSE CvZero])
RampSource(shp, n) ==
  Field(shp, n, [i \in 1..(Volume(shp) * n) |->
                   <<Re(i), Cx(1, i), Re(-1)>>])

AppCallOf(x, out) == [in |-> x, out |-> out]

\* calls on x, on y and on a*x + b*y, each with an output field of zeros,
\* then a call on x with another output field
LinearPlan(x, y, a, b) ==
  << AppCallOf(x, FieldZero(shape, num_spins)),
     AppCallOf(y, FieldZero(shape, num_spins)),
     AppCallOf(FieldAdd(FieldScale(a, x), FieldScale(b, y)),
               FieldZero(shape, num_spins)),
     AppCallOf(x, RampSource(shape, num_spins)) >>

AppScalars == {<<Re(2), CI>>, <<Re(-1), Re(3)>>}

LinearPlans ==
  {LinearPlan(UnitSource(shape, num_spins), RampSource(shape, num_spins),
              ab[1], ab[2]) : ab \in AppScalars}
  \cup {LinearPlan(RampSource(shape, num_spins),
                   UnitSource(shape, num_spins), ab[1], ab[2]) :
          ab \in AppScalars}

\* single calls with a field that does not fit the matrix: an input of
\* another site size, an input on a layout of another volume, an output of
\* another site size
MismatchPlans ==
  { << AppCallOf(RampSource(shape, num_spins + 1),
                 RampSource(shape, num_spins)) >>,
    << AppCallOf(RampSource([shape EXCEPT ![1] = @ + 1], num_spins),
                 RampSource(shape, num_spins)) >>,
    << AppCallOf(RampSource(shape, num_spins),
                 RampSource(shape, num_spins + 1)) >> }

\* without spin structures: a single call with fields that fit
AppPlans ==
  IF spin_structures = <<>>
  THEN { << AppCallOf(RampSource(shape, num_spins),
                      RampSource(shape, num_spins)) >> }
  ELSE LinearPlans \cup MismatchPlans

InitApp ==
  /\ shape \in AppShapes
  /\ phases = AppPhases(shape)
  /\ Nhops \in 1..MaxHops
  /\ hopField = [l \in 1..(Volume(shape) * Len(shape)) |-> HopLink(l - 1)]
  /\ site_index = 0 /\ dirn = 0 /\ hop = 0 /\ site_coords = <<>>
  /\ ctorPc = "idle"
  /\ scattered_gauge_field = <<>> /\ neighbour_array_indices = <<>>
  /\ spin_structures = <<>> /\ appIn = <<>> /\ appOut = <<>>
  /\ pre_gather_results = <<>> /\ arr_index = 0 /\ mu = 0 /\ appPc = "idle"
  /\ appGarbage \in {Zero, Re(7)}
  /\ appPlan = <<>> /\ callNo = 0 /\ appResults = <<>> /\ appAccess = {}
  /\ PosIdle /\ HbIdle /\ CgIdle /\ GenIdle

\* lines 42-45: set_spin_structures(matrices)
SetSpinStructures ==
  /\ ctorPc = "done" /\ appPc = "idle" /\ spin_structures = <<>>
  /\ spin_structures' = AppSpinStructures
  /\ UNCHANGED <<appIn, appOut, pre_gather_results, arr_index, mu, appPc,
                 appGarbage, appPlan, callNo, appResults, appAccess>>
  /\ UNCHANGED <<posVars, hbVars, cgVars, hopVars, genVars>>

\* lines 148-154: pre_gather_results is allocated, arr_index = 0
AppEnter(call) ==
  /\ appIn' = call.in /\ appOut' = call.out
  /\ pre_gather_results' =
       [i \in 1..(Volume(call.in.layout) * Len(call.in.layout)
                    * num_spins * 2) |-> CvZero]
  /\ arr_index' = 0 /\ mu' = 0 /\ appPc' = "multiply" /\ appAccess' = {}

\* the first call of apply_full on the matrix
AppCall ==
  /\ ctorPc = "done" /\ appPc = "idle"
  /\ \E plan \in AppPlans :
       /\ appPlan' = plan /\ AppEnter(plan[1])
  /\ callNo' = 1
  /\ UNCHANGED <<spin_structures, appGarbage, appResults>>
  /\ UNCHANGED <<posVars, hbVars, cgVars, hopVars, genVars>>

\* the next call of apply_full on the matrix
AppCallAgain ==
  /\ appPc = "returned" /\ callNo < Len(appPlan)
  /\ AppEnter(appPlan[callNo + 1])
  /\ callNo' = callNo + 1
  /\ UNCHANGED <<spin_structures, appGarbage, appPlan, appResults>>
  /\ UNCHANGED <<posVars, hbVars, cgVars, hopVars, genVars>>

\* ++mu, and ++arr_index after the last mu
AppAdvance ==
  IF mu + 1 < AppNdims
  THEN mu' = mu + 1 /\ arr_index' = arr_index
  ELSE mu' = 0 /\ arr_index' = arr_index + 1

\* lines 154-170: one pass of the loop over mu in the multiply phase
AppMultiply ==
  /\ appPc = "multiply" /\ arr_index < AppVolume
  /\ pre_gather_results' = MultiplyStep(arr_index, mu)
  /\ appAccess' = appAccess \cup MultiplyAccess(arr_index, mu)
  /\ AppAdvance
  /\ UNCHANGED <<spin_structures, appIn, appOut, appPc, appGarbage, appPlan,
                 callNo, appResults>>
  /\ UNCHANGED <<posVars, hbVars, cgVars, hopVars, genVars>>

\* lines 154, 172: the multiply phase ends, the scatter phase begins
AppMultiplyEnd ==
  /\ appPc = "multiply" /\ arr_index = AppVolume
  /\ appPc' = "scatter" /\ arr_index' = 0 /\ mu' = 0
  /\ UNCHANGED <<spin_structures, appIn, appOut, pre_gather_results,
                 appGarbage, appPlan, callNo, appResults, appAccess>>
  /\ UNCHANGED <<posVars, hbVars, cgVars, hopVars, genVars>>

\* lines 172-187: one pass of the loop over mu in the scatter phase
AppScatter ==
  /\ appPc = "scatter" /\ arr_index < AppVolume
  /\ appOut' = ScatterStep(arr_index, mu)
  /\ appAccess' = appAccess \cup ScatterAccess(arr_index, mu)
  /\ AppAdvance
  /\ UNCHANGED <<spin_structures, appIn, pre_gather_results, appPc,
                 appGarbage, appPlan, callNo, appResults>>
  /\ UNCHANGED <<posVars, hbVars, cgVars, hopVars, genVars>>

\* line 188: apply_full returns
AppReturn ==
  /\ appPc = "scatter" /\ arr_index = AppVolume
  /\ appPc' = "returned"
  /\ appResults' = Append(appResults, appOut)
  /\ UNCHANGED <<spin_structures, appIn, appOut, pre_gather_results,
                 arr_index, mu, appGarbage, appPlan, callNo, appAccess>>
  /\ UNCHANGED <<posVars, hbVars, cgVars, hopVars, genVars>>

\* an access outside a container stops the program
AppFault ==
  /\ appPc \in {"multiply", "scatter"}
  /\ arr_index < AppVolume
  /\ \/ appPc = "multiply" /\ MultiplyOutOfRange(arr_index, mu)
     \/ appPc = "scatter" /\ ScatterOutOfRange(arr_index, mu)
  /\ appPc' = "fault"
  /\ UNCHANGED <<spin_structures, appIn, appOut, pre_gather_results,
                 arr_index, mu, appGarbage, appPlan, callNo, appResults,
                 appAccess>>
  /\ UNCHANGED <<posVars, hbVars, cgVars, hopVars, genVars>>

NextApp ==
  \/ CtorCall \/ CtorPhase \/ CtorHop \/ CtorNeighbours \/ CtorReturn
  \/ SetSpinStructures \/ AppCall \/ AppCallAgain \/ AppMultiply
  \/ AppMultiplyEnd \/ AppScatter \/ AppReturn \/ AppFault
SpecApp == InitApp /\ [][NextApp]_vars

\* the field has the layout of the matrix and num_spins elements per site
FitsMatrix(f) == f.layout = shape /\ f.site_size = num_spins

\* a call is under way or over, on fields that fit the matrix, the spin
\* structures being set
CallFits ==
  /\ callNo >= 1 /\ spin_structures # <<>>
  /\ FitsMatrix(appIn) /\ FitsMatrix(appOut)

\* the component (site, spin) of a field that fits the matrix
Component(f, site, spin) == f.data[site * num_spins + spin + 1]

\* the forward and backward entries of (site, d) as the constructor stores
\* them (lines 92-95)
ForwardEntry(site, d) == scattered_gauge_field[ScatIndex(site, 2 * d + 1)]
BackwardEntry(site, d) == scattered_gauge_field[ScatIndex(site, 2 * d)]

\* sum over beta < n of structure[alpha][beta] * U * in(site, beta)
RECURSIVE SpinPartial(_, _, _, _, _)
SpinPartial(structure, U, site, alpha, n) ==
  IF n = 0 THEN CvZero
  ELSE CvAdd(SpinPartial(structure, U, site, alpha, n - 1),
             CvScale(structure[alpha + 1][n],
                     MatVec(U, Component(appIn, site, n - 1))))

\* what site s sends along axis d to the component (n, alpha): the partial
\* of structure 2d with the forward entry if n is s + H e_d, the partial
\* of structure 2d + 1 with the adjoint of the backward entry if n is
\* s - H e_d
SentForwardFirst(n, alpha, s, d) ==
  CvAdd(IF ShiftSite(s, d, Nhops) = n
        THEN SpinPartial(spin_structures[2 * d + 1], ForwardEntry(s, d),
                         s, alpha, num_spins)
        ELSE CvZero,
        IF ShiftSite(s, d, 0 - Nhops) = n
        THEN SpinPartial(spin_structures[2 * d + 2],
                         MatAdjoint(BackwardEntry(s, d)), s, alpha, num_spins)
        ELSE CvZero)

\* the same with the entries exchanged: structure 2d with the backward
\* entry to s - H e_d, structure 2d + 1 with the adjoint of the forward
\* entry to s + H e_d
SentBackwardFirst(n, alpha, s, d) ==
  CvAdd(IF ShiftSite(s, d, 0 - Nhops) = n
        THEN SpinPartial(spin_structures[2 * d + 1], BackwardEntry(s, d),
                         s, alpha, num_spins)
        ELSE CvZero,
        IF ShiftSite(s, d, Nhops) = n
        THEN SpinPartial(spin_structures[2 * d + 2],
                         MatAdjoint(ForwardEntry(s, d)), s, alpha, num_spins)
        ELSE CvZero)

\* the sum of what the first k pairs (s, d) send to the component (n, alpha)
RECURSIVE ReceivedForwardFirst(_, _, _)
ReceivedForwardFirst(n, alpha, k) ==
  IF k = 0 THEN CvZero
  ELSE CvAdd(ReceivedForwardFirst(n, alpha, k - 1),
             SentForwardFirst(n, alpha, (k - 1) \div Len(shape),
                              (k - 1) % Len(shape)))

RECURSIVE ReceivedBackwardFirst(_, _, _)
ReceivedBackwardFirst(n, alpha, k) ==
  IF k = 0 THEN CvZero
  ELSE CvAdd(ReceivedBackwardFirst(n, alpha, k - 1),
             SentBackwardFirst(n, alpha, (k - 1) \div Len(shape),
                               (k - 1) % Len(shape)))

\* the output field of the current call as it was passed in
OutAtCall == appPlan[callNo].out

\* C11: the value of out after a call of apply_full depends only on in and
\* the matrix: two calls on the same matrix with the same input return the
\* same output field, whatever their output fields held before.
C11_OutZeroedFirst ==
  \A i \in 1..Len(appResults) : \A j \in 1..Len(appResults) :
    appPlan[i].in = appPlan[j].in => appResults[i] = appResults[j]

\* two calls with the same input and different output fields have returned
C11_SameInputTwice ==
  \E i \in 1..Len(appResults) : \E j \in 1..Len(appResults) :
    /\ appPlan[i].in = appPlan[j].in
    /\ appPlan[i].out # appPlan[j].out

\* C12: when a call on fitting fields returns, every component (n, alpha)
\* of out has grown by the partials of structure 2d with the un-adjointed
\* forward entry of the sites s with s + H e_d = n, and by the partials of
\* structure 2d + 1 with the adjoint of the backward entry of the sites s
\* with s - H e_d = n.
C12_ForwardEntryGoesForward ==
  (CallFits /\ appPc = "returned") =>
    \A n \in HopSites : \A alpha \in AppSpins :
      Component(appOut, n, alpha) =
        CvAdd(Component(OutAtCall, n, alpha),
              ReceivedForwardFirst(n, alpha, Volume(shape) * Len(shape)))

\* a call on fitting fields has returned on a lattice where a site has
\* different forward and backward entries
C12_EntriesDiffer ==
  /\ CallFits /\ appPc = "returned"
  /\ \E s \in HopSites : \E d \in HopAxes :
       ForwardEntry(s, d) # BackwardEntry(s, d)

\* on lattices of one, two or four dimensions whose extents are powers of
\* two the partials go the other way round
BackwardEntryGoesBackward ==
  (CallFits /\ appPc = "returned" /\ Len(shape) # 3 /\ PowerOfTwoShape) =>
    \A n \in HopSites : \A alpha \in AppSpins :
      Component(appOut, n, alpha) =
        CvAdd(Component(OutAtCall, n, alpha),
              ReceivedBackwardFirst(n, alpha, Volume(shape) * Len(shape)))

\* C13: apply_full is linear: the result on a*x + b*y is a times the
\* result on x plus b times the result on y, component by component, each
\* of the three calls being given an output field of its own.
C13_ApplyLinear ==
  \A ab \in AppScalars :
    (/\ Len(appResults) >= 3
     /\ appPlan[3].in = FieldAdd(FieldScale(ab[1], appPlan[1].in),
                                 FieldScale(ab[2], appPlan[2].in)))
    => appResults[3] = FieldAdd(FieldScale(ab[1], appResults[1]),
                                FieldScale(ab[2], appResults[2]))

\* the calls on x, y and a*x + b*y have returned on a lattice of more than
\* one site
C13_ThreeCallsReturned ==
  /\ Len(appResults) >= 3 /\ Len(appPlan) >= 3 /\ Volume(shape) >= 2
  /\ appPlan[1].in # appPlan[2].in

\* on lattices of one or two dimensions apply_full is linear
LinearOnOtherDims ==
  Len(shape) # 3 =>
    \A ab \in AppScalars :
      (/\ Len(appResults) >= 3
       /\ appPlan[3].in = FieldAdd(FieldScale(ab[1], appPlan[1].in),
                                   FieldScale(ab[2], appPlan[2].in)))
      => appResults[3] = FieldAdd(FieldScale(ab[1], appResults[1]),
                                  FieldScale(ab[2], appResults[2]))

\* the container an access goes to holds the element accessed
AccessInRange(a) ==
  /\ a.idx >= 0
  /\ a.idx < (CASE a.op = "read_in" -> Len(appIn.data)
                [] a.op = "read_scattered" -> Len(scattered_gauge_field)
                [] a.op = "write_out" -> Len(appOut.data)
                [] OTHER -> Len(pre_gather_results))

\* a call is under way or over with a field that does not fit the matrix
\* or without spin structures
CallMisfits ==
  /\ callNo >= 1
  /\ \/ spin_structures = <<>>
     \/ ~FitsMatrix(appPlan[callNo].in)
     \/ ~FitsMatrix(appPlan[callNo].out)

\* C14: a call of apply_full with an input or output field that does not
\* fit the matrix, or on a matrix without its 2*Nd spin structures, ends
\* with a shape failure: it does not run to its return, it is not stopped
\* by an access outside a container, it leaves out as it was and it makes
\* no access outside a container.
C14_MisfitRejected ==
  CallMisfits =>
    /\ appPc \notin {"returned", "fault"}
    /\ appOut = OutAtCall
    /\ \A a \in appAccess : AccessInRange(a)

\* a call with a misfit has run to its return
C14_MisfitReturned == CallMisfits /\ appPc = "returned"

\* C15: in a call on fitting fields the input component (s, beta) is read
\* at flat index s*Ns + beta and the output component (n, alpha) written
\* at n*Ns + alpha, every such index lies in [0, volume*Ns), and the
\* multiply phase reads every input component of every site.
C15_SpinorIndexing ==
  CallFits =>
    /\ \A a \in appAccess :
         a.op \in {"read_in", "write_out"} =>
           /\ a.idx = a.site * num_spins + a.spin
           /\ a.idx \in 0..(Volume(shape) * num_spins - 1)
    /\ appPc \in {"scatter", "returned"} =>
         \A s \in HopSites : \A beta \in AppSpins :
           \E a \in appAccess :
             a.op = "read_in" /\ a.idx = s * num_spins + beta

\* a call on fitting fields has returned on a lattice of three dimensions
\* and more than one site
C15_ThreeDimsReturned ==
  CallFits /\ appPc = "returned" /\ Len(shape) = 3 /\ Volume(shape) >= 2

\* on lattices of one or two dimensions the components are indexed as
\* stated
SpinorIndexingOnOtherDims ==
  (CallFits /\ Len(shape) # 3) =>
    /\ \A a \in appAccess :
         a.op \in {"read_in", "write_out"} =>
           /\ a.idx = a.site * num_spins + a.spin
           /\ a.idx \in 0..(Volume(shape) * num_spins - 1)
    /\ appPc \in {"scatter", "returned"} =>
         \A s \in HopSites : \A beta \in AppSpins :
           \E a \in appAccess :
             a.op = "read_in" /\ a.idx = s * num_spins + beta

AccessesOf(kind) == {a \in appAccess : a.op = kind}
SamePartial(a, b) ==
  a.site = b.site /\ a.axis = b.axis /\ a.spin = b.spin /\ a.sign = b.sign

\* C19: the index at which the multiply phase writes the partial of
\* (s, mu, alpha, sign) is the index at which the scatter phase reads it;
\* different (s, mu, alpha, sign) have different indices, all inside
\* [0, volume * Nd * Ns * 2); every partial written is read, and on the
\* matrix's layout the scattered entries read for (s, mu) are the entries
\* (s, 2*mu) and (s, 2*mu + 1) the constructor wrote.
C19_PartialIndexing ==
  /\ \A w \in AccessesOf("write_partial") :
       /\ w.idx \in 0..(AppVolume * AppNdims * num_spins * 2 - 1)
       /\ \A r \in AccessesOf("read_partial") :
            SamePartial(w, r) <=> w.idx = r.idx
       /\ \A v \in AccessesOf("write_partial") :
            w.idx = v.idx => SamePartial(w, v)
  /\ appPc = "returned" =>
       \A w \in AccessesOf("write_partial") :
         \E r \in AccessesOf("read_partial") : SamePartial(w, r)
  /\ (callNo >= 1 /\ appIn.layout = shape) =>
       \A a \in AccessesOf("read_scattered") :
         a.idx + 1 = ScatIndex(a.site, 2 * a.axis + a.sign)

\* a call has returned on a lattice of two dimensions and several sites:
\* partials of both spins, both signs, both axes have been written and read
C19_TwoSpinsReturned ==
  /\ callNo >= 1 /\ appPc = "returned" /\ appIn.layout = shape
  /\ num_spins = 2 /\ Volume(shape) >= 2
  /\ \E w \in AccessesOf("write_partial") :
       w.site = 1 /\ w.axis = 1 /\ w.spin = 1 /\ w.sign = 1

----------------------------------------------------------------------------
(* Specification SpecGen: one call of gen_heatbath_su2(weight) on a seeded *)
(* random source, the while loop taken one pass at a time.                 *)

MaxRounds == 4

\* weights > 0, in units of ln 2
GenWeights == {Frac(1, 2), One, Re(2), Re(4)}

InitGen ==
  /\ genWeight \in GenWeights
  /\ genSeed \in 0..(RngPeriod - 1)
  /\ genRng = RngSeed(genSeed)
  /\ genLambdaSq = Zero /\ genUniformSq = Zero /\ genDraws = <<>>
  /\ genRounds = 0 /\ genPc = "idle" /\ genResult = <<>>
  /\ PosIdle /\ HbIdle /\ CgIdle /\ HopIdle /\ AppIdle

\* an entry that starts from lambda_squared = 0
GenCallLambdaZero ==
  /\ genPc = "idle"
  /\ \E d0 \in {generate_unit(genRng)} :
       /\ genLambdaSq' = Zero
       /\ genUniformSq' = CMul(d0.v, d0.v)
       /\ genRng' = d0.rng
  /\ genRounds' = 0 /\ genPc' = "loop"
  /\ UNCHANGED <<genWeight, genSeed, genDraws, genResult>>
  /\ UNCHANGED <<posVars, hbVars, cgVars, hopVars, appVars>>

\* lines 52-53: lambda_squared = 2.0, uniform_squared = rand^2
GenCall ==
  /\ genPc = "idle"
  /\ \E d0 \in {generate_unit(genRng)} :
       /\ genLambdaSq' = Re(2)
       /\ genUniformSq' = CMul(d0.v, d0.v)
       /\ genRng' = d0.rng
  /\ genRounds' = 0 /\ genPc' = "loop"
  /\ UNCHANGED <<genWeight, genSeed, genDraws, genResult>>
  /\ UNCHANGED <<posVars, hbVars, cgVars, hopVars, appVars>>

\* lines 54-62: the loop test holds, one pass of the body
GenRound ==
  /\ genPc = "loop" /\ genRounds < MaxRounds
  /\ RLess(CSub(One, genLambdaSq), genUniformSq)
  /\ \E ds \in {UnitDraws(genRng, 4)} :
       \E nx \in {HeatbathRoundOf(genWeight, ds)} :
         /\ genLambdaSq' = nx[1]
         /\ genUniformSq' = nx[2]
         /\ genRng' = nx[3]
         /\ genDraws' = <<CSub(One, ds[1].v), CSub(One, ds[2].v),
                          CSub(One, ds[3].v)>>
  /\ genRounds' = genRounds + 1
  /\ UNCHANGED <<genWeight, genSeed, genPc, genResult>>
  /\ UNCHANGED <<posVars, hbVars, cgVars, hopVars, appVars>>

\* lines 54, 63-77: the loop test fails; coeffs and the matrix returned
GenReturn ==
  /\ genPc = "loop"
  /\ ~RLess(CSub(One, genLambdaSq), genUniformSq)
  /\ genResult' = HeatbathTail([lambda_squared |-> genLambdaSq,
                                rng |-> genRng, rounds |-> genRounds])
  /\ genPc' = "returned"
  /\ UNCHANGED <<genWeight, genSeed, genRng, genLambdaSq, genUniformSq,
                 genDraws, genRounds>>
  /\ UNCHANGED <<posVars, hbVars, cgVars, hopVars, appVars>>

NextGen == GenCall \/ GenRound \/ GenReturn
SpecGen == InitGen /\ [][NextGen]_vars

\* C17: gen_heatbath_su2(weight > 0) makes at least one proposal round
\* whatever the first uniform drawn is, draws r0, r1, r2 in (0, 1], goes
\* on to another round while u^2 > 1 - lambda^2, and returns only with
\* a0 = 1 - 2 * lambda^2 from a round with u^2 <= 1 - lambda^2, so that
\* 0 <= lambda^2 <= 1 and -1 <= a0 <= 1 on return.
C17_AcceptedRound ==
  /\ [](genPc = "returned" =>
          /\ genRounds >= 1
          /\ RLeq(genUniformSq, CSub(One, genLambdaSq))
          /\ RLeq(Zero, genLambdaSq) /\ RLeq(genLambdaSq, One)
          /\ genResult.coeffs[1] = CSub(One, CMul(Re(2), genLambdaSq))
          /\ RLeq(Re(-1), genResult.coeffs[1])
          /\ RLeq(genResult.coeffs[1], One))
  /\ [](genRounds >= 1 =>
          \A i \in 1..3 :
            RLess(Zero, genDraws[i]) /\ RLeq(genDraws[i], One))
  /\ [][(genPc = "loop" /\ RLess(CSub(One, genLambdaSq), genUniformSq)) =>
          (genPc' = "loop" /\ genRounds' = genRounds + 1)]_vars

\* a call whose first uniform was 0 has returned after a rejected round
C17_ReturnedAfterRejection ==
  /\ genPc = "returned" /\ genRounds >= 2
  /\ RngUniform(RngSeed(genSeed).s) = Zero

\* the loop taken pass by pass returns what gen_heatbath_su2 returns
GenAgreesWithOperator ==
  genPc = "returned" =>
    genResult = gen_heatbath_su2(genWeight, RngSeed(genSeed))

=============================================================================
